---- MODULE Spec2Model ----
(***************************************************************************)
(* Model of yagni.pydantic.types: the validated scalar types               *)
(* NonEmptyStr, SSN, MBI (pydantic v1 ConstrainedStr subclasses),          *)
(* CaseInsensitiveEnum and UTCDatetime.                                    *)
(*                                                                         *)
(* A string is a sequence of characters; a character is a one-token        *)
(* TLA+ string.  Three non-ASCII characters are written by code point.     *)
(* One construction runs the type's validator chain one validator per      *)
(* step; pc is the validator that runs next.                               *)
(***************************************************************************)
EXTENDS Integers, Sequences, FiniteSets, TLC

VARIABLES
    ty,       \* the type under construction
    cls,      \* the CaseInsensitiveEnum subclass, "" for the other types
    raw,      \* the input string
    obj,      \* the input datetime object, when the input is not a string
    value,    \* the string passed from validator to validator, first raw
    dt,       \* the datetime passed from parse_datetime to validate
    member,   \* the enum member returned
    pc,       \* index of the validator that runs next
    err,      \* the error raised, NoErr while none is
    matched,  \* the string ConstrainedStr.validate gave to re.match
    round,    \* 1 for the construction from raw, 2 for the one from its result
    first     \* the result of round 1

vars == <<ty, cls, raw, obj, value, dt, member, pc, err, matched, round, first>>

(***************************************************************************)
(* Bounds of the input space.                                              *)
(***************************************************************************)
MaxEdits == 1
MaxLen == 3

(***************************************************************************)
(* Characters.                                                             *)
(***************************************************************************)
LowerAlpha == <<"a","b","c","d","e","f","g","h","i","j","k","l","m",
                "n","o","p","q","r","s","t","u","v","w","x","y","z">>
UpperAlpha == <<"A","B","C","D","E","F","G","H","I","J","K","L","M",
                "N","O","P","Q","R","S","T","U","V","W","X","Y","Z">>
AsciiDigits == <<"0","1","2","3","4","5","6","7","8","9">>

\* U+0663 ARABIC-INDIC DIGIT THREE: a decimal digit that is not ASCII.
ArabicThree == "U+0663"
\* U+FB00 LATIN SMALL LIGATURE FF: upper-cases to the two letters FF.
LigatureFF == "U+FB00"
\* U+00DF LATIN SMALL LETTER SHARP S: upper-cases to the two letters SS.
SharpS == "U+00DF"

Range(s) == {s[i] : i \in DOMAIN s}
IndexOf(s, c) == CHOOSE i \in DOMAIN s : s[i] = c

\* str.lower(), one character
LowerCh(c) ==
    IF c \in Range(UpperAlpha) THEN LowerAlpha[IndexOf(UpperAlpha, c)] ELSE c

\* str.upper(), one character: the result may be two characters long
UpperCh(c) ==
    IF c \in Range(LowerAlpha) THEN <<UpperAlpha[IndexOf(LowerAlpha, c)]>>
    ELSE IF c = LigatureFF THEN <<"F", "F">>
    ELSE IF c = SharpS THEN <<"S", "S">>
    ELSE <<c>>

Lower(s) == [i \in DOMAIN s |-> LowerCh(s[i])]

RECURSIVE Upper(_)
Upper(s) == IF s = <<>> THEN <<>> ELSE UpperCh(Head(s)) \o Upper(Tail(s))

\* str.isspace() of one character
IsSpace(c) == c \in {" ", "\n", "\t"}

RECURSIVE LStrip(_)
LStrip(s) == IF s # <<>> /\ IsSpace(Head(s)) THEN LStrip(Tail(s)) ELSE s

RECURSIVE RStrip(_)
RStrip(s) ==
    IF s # <<>> /\ IsSpace(s[Len(s)]) THEN RStrip(SubSeq(s, 1, Len(s) - 1)) ELSE s

\* str.strip()
Strip(s) == RStrip(LStrip(s))

\* str.replace(old, ""), old one character long
RECURSIVE Remove(_, _)
Remove(s, old) ==
    IF s = <<>> THEN <<>>
    ELSE IF Head(s) = old THEN Remove(Tail(s), old)
    ELSE <<Head(s)>> \o Remove(Tail(s), old)

(***************************************************************************)
(* Regular expressions, as re.match evaluates the two patterns.            *)
(***************************************************************************)
\* \d on a str pattern: any Unicode decimal digit
IsDigit(c) == c \in Range(AsciiDigits) \cup {ArabicThree}

\* [1-9]
IsOneToNine(c) == c \in Range(AsciiDigits) \ {"0"}

\* [a-zA-Z] without the lookahead
IsMbiLetter_any(c) == c \in Range(LowerAlpha) \cup Range(UpperAlpha)

\* (?![sloibzSLOIBZ])[a-zA-Z]
IsMbiLetter(c) ==
    /\ c \in Range(LowerAlpha) \cup Range(UpperAlpha)
    /\ c \notin {"s","l","o","i","b","z","S","L","O","I","B","Z"}

\* \d|(?![sloibzSLOIBZ])[a-zA-Z]
IsMbiAlnum(c) == IsDigit(c) \/ IsMbiLetter(c)

\* $ without re.MULTILINE: at the end, or just before a final line feed
AtDollar(s, i) == i = Len(s) + 1 \/ (i = Len(s) /\ s[i] = "\n")

\* (-?\d){n}$ matched from position i
RECURSIVE MatchDashDigits(_, _, _)
MatchDashDigits(s, i, n) ==
    IF n = 0 THEN AtDollar(s, i)
    ELSE IF i <= Len(s) /\ s[i] = "-"
         THEN i + 1 <= Len(s) /\ IsDigit(s[i + 1]) /\ MatchDashDigits(s, i + 2, n - 1)
         ELSE i <= Len(s) /\ IsDigit(s[i]) /\ MatchDashDigits(s, i + 1, n - 1)

SsnDigits == 9

\* SSN.regex = ^\d(-?\d){8}$
SSN_regex(s) == Len(s) >= 1 /\ IsDigit(s[1]) /\ MatchDashDigits(s, 2, SsnDigits - 1)

\* MBI.regex, the eleven groups in order
MBI_pattern == <<"19", "L", "DL", "D", "L", "DL", "D", "L", "L", "D", "D">>

InClass(k, c) ==
    CASE k = "19" -> IsOneToNine(c)
      [] k = "L"  -> IsMbiLetter(c)
      [] k = "DL" -> IsMbiAlnum(c)
      [] k = "D"  -> IsDigit(c)

MBI_regex(s) ==
    /\ Len(s) >= Len(MBI_pattern)
    /\ \A i \in DOMAIN MBI_pattern : InClass(MBI_pattern[i], s[i])
    /\ AtDollar(s, Len(MBI_pattern) + 1)

(***************************************************************************)
(* Class attributes of the ConstrainedStr subclasses; an attribute a       *)
(* subclass does not set keeps the ConstrainedStr default.                 *)
(***************************************************************************)
StrTypes == {"NonEmptyStr", "SSN", "MBI"}

\* strip_whitespace left at the ConstrainedStr default
strip_whitespace_default(t) == FALSE

strip_whitespace(t) == t = "NonEmptyStr"

\* SSN given a min_length of its own
min_length_ssn(t) == IF t = "NonEmptyStr" THEN 1 ELSE IF t = "SSN" THEN 9 ELSE 0

\* Config.min_anystr_length is 0
min_length(t) == IF t = "NonEmptyStr" THEN 1 ELSE 0

to_upper(t) == t = "MBI"

HasRegex(t) == t \in {"SSN", "MBI"}

RegexMatch(t, s) ==
    CASE t = "SSN" -> SSN_regex(s)
      [] t = "MBI" -> MBI_regex(s)

\* str.replace(old, "", 1)
RECURSIVE RemoveFirst(_, _)
RemoveFirst(s, old) ==
    IF s = <<>> THEN <<>>
    ELSE IF Head(s) = old THEN Tail(s)
    ELSE <<Head(s)>> \o RemoveFirst(Tail(s), old)

\* cleanup_ssn removing one dash only
cleanup_ssn_once(v) == RemoveFirst(v, "-")

\* SSN.cleanup_ssn
cleanup_ssn(v) == Remove(v, "-")

\* ConstrainedStr.__get_validators__
ConstrainedStr_validators ==
    <<"str_validator", "constr_strip_whitespace", "constr_upper", "constr_lower",
      "constr_length_validator", "ConstrainedStr.validate">>

\* cleanup_ssn yielded before the validators of ConstrainedStr
SSN_validators_cleanup_first == <<"cleanup_ssn">> \o ConstrainedStr_validators

\* SSN.__get_validators__
SSN_validators == ConstrainedStr_validators \o <<"cleanup_ssn">>

\* CaseInsensitiveEnum(value): the lookup by value, then _missing_
Enum_call == <<"Enum.__new__", "_missing_">>

\* UTCDatetime.__get_validators__
UTCDatetime_validators == <<"parse_datetime", "UTCDatetime.validate">>

Validators(t) ==
    CASE t = "SSN" -> SSN_validators
      [] t \in {"NonEmptyStr", "MBI"} -> ConstrainedStr_validators
      [] t = "CaseInsensitiveEnum" -> Enum_call
      [] t = "UTCDatetime" -> UTCDatetime_validators

(***************************************************************************)
(* Errors.                                                                 *)
(***************************************************************************)
Error(exc, msg, input, type) ==
    [exc |-> exc, msg |-> msg, value |-> input, type |-> type]

NoErr == Error("none", "", <<>>, "")

AnyStrMinLengthError == Error("AnyStrMinLengthError", "min_length", <<>>, "")
StrRegexError == Error("StrRegexError", "regex", <<>>, "")
DateTimeError == Error("DateTimeError", "invalid datetime format", <<>>, "")
NaiveError == Error("ValueError", "Naive timestamps are not allowed", <<>>, "")
NonUTCError == Error("ValueError", "Timestamp must be in UTC timezone", <<>>, "")

\* ValueError("%r is not a valid %s" % (value, cls.__qualname__))
NotAValidError(input, c) == Error("ValueError", "is not a valid", input, c)

\* None, where a string is expected
NoValue == <<"None">>

(***************************************************************************)
(* CaseInsensitiveEnum subclasses: the canonical strings of the members,   *)
(* in definition order.  Gender is the class of the doctest, Color has     *)
(* canonical strings that are not lower case, and the members of Unit      *)
(* differ only in letter case.  A member is its index.                     *)
(***************************************************************************)
EnumClasses == {"Gender", "Color", "Unit"}

Members(c) ==
    CASE c = "Gender" -> << <<"m","a","l","e">>, <<"f","e","m","a","l","e">> >>
      [] c = "Color"  -> << <<"R","e","d">>, <<"G","R","E","E","N">> >>
      [] c = "Unit"   -> << <<"k","b">>, <<"K","B">>, <<"K","b">> >>

NoMember == 0

\* StringEnum.__str__
StringEnum_str(c, m) == Members(c)[m]

\* Enum.__new__: cls._value2member_map_[value]
ValueToMember(c, s) ==
    IF \E m \in DOMAIN Members(c) : Members(c)[m] = s
    THEN CHOOSE m \in DOMAIN Members(c) : Members(c)[m] = s
    ELSE NoMember

\* the comparison without lower()
CaseMatch_exact(c, m, s) == Members(c)[m] = s

\* the condition of the scan in _missing_
CaseMatch(c, m, s) == Lower(Members(c)[m]) = Lower(s)

\* the scan keeping the last match in place of returning the first
Missing_last(c, s) ==
    IF \E m \in DOMAIN Members(c) : Lower(Members(c)[m]) = Lower(s)
    THEN CHOOSE m \in DOMAIN Members(c) :
            /\ Lower(Members(c)[m]) = Lower(s)
            /\ \A k \in (m + 1)..Len(Members(c)) : Lower(Members(c)[k]) # Lower(s)
    ELSE NoMember

\* CaseInsensitiveEnum._missing_: the first member in definition order that
\* matches, or None from Enum._missing_
Missing(c, s) ==
    IF \E m \in DOMAIN Members(c) : CaseMatch(c, m, s)
    THEN CHOOSE m \in DOMAIN Members(c) :
            /\ CaseMatch(c, m, s)
            /\ \A k \in 1..(m - 1) : ~CaseMatch(c, k, s)
    ELSE NoMember

(***************************************************************************)
(* Datetimes.  Only the tzinfo of a datetime matters to the validators;    *)
(* a tzinfo is its class, its UTC offset in minutes and its name.          *)
(***************************************************************************)
Tz(c, off, name) == [cls |-> c, off |-> off, name |-> name]

\* tzinfo=None
TzNone == Tz("None", 0, "")

\* datetime.timezone.utc
TimezoneUtc == Tz("timezone", 0, "UTC")

\* datetime.timezone(timedelta(minutes=off)); a zero offset without a name
\* is the timezone.utc singleton
Timezone(off) == IF off = 0 THEN TimezoneUtc ELSE Tz("timezone", off, "UTC+off")

Datetime(tz) == [set |-> TRUE, tz |-> tz]

NoDatetime == [set |-> FALSE, tz |-> TzNone]

\* bool(tzinfo): None is false, a tzinfo object is true
Truthy(tz) == tz.cls # "None"

\* equality by offset alone, whatever the class of the zone
TzEq_offsets(a, b) == a.off = b.off

\* a == b on tzinfo objects: timezone.__eq__ compares the offsets of two
\* timezone instances; any other pair is equal only if it is one object
TzEq(a, b) ==
    IF a.cls = "timezone" /\ b.cls = "timezone" THEN a.off = b.off ELSE a = b

DigitVal(c) == IndexOf(AsciiDigits, c) - 1

\* (?P<tzinfo>Z|[+-]\d{2}(?::?\d{2})?)?$ of pydantic's datetime_re
IsTzSuffix(z) ==
    \/ z = <<>>
    \/ z = <<"Z">>
    \/ /\ Len(z) \in {3, 5, 6}
       /\ z[1] \in {"+", "-"}
       /\ z[2] \in Range(AsciiDigits) /\ z[3] \in Range(AsciiDigits)
       /\ Len(z) = 5 => z[4] \in Range(AsciiDigits) /\ z[5] \in Range(AsciiDigits)
       /\ Len(z) = 6 => z[4] = ":" /\ z[5] \in Range(AsciiDigits)
                                  /\ z[6] \in Range(AsciiDigits)

\* pydantic.datetime_parse._parse_timezone
ParseTimezone(z) ==
    IF z = <<>> THEN TzNone
    ELSE IF z = <<"Z">> THEN TimezoneUtc
    ELSE LET n == Len(z)
             mins == IF n > 3 THEN 10 * DigitVal(z[n - 1]) + DigitVal(z[n]) ELSE 0
             off == 60 * (10 * DigitVal(z[2]) + DigitVal(z[3])) + mins
         IN Timezone(IF z[1] = "-" THEN -off ELSE off)

\* the date and time of the doctest, with either separator
Stamps ==
    { <<"1","9","9","1","-","0","8","-","2","4",sep,"1","0",":","0","0",":","0","0">> :
        sep \in {"T", " "} }

StampLen == 19

\* pydantic.validators.parse_datetime on a str: a number is a Unix time,
\* anything else must match datetime_re
IsNumeric(s) == s # <<>> /\ \A i \in DOMAIN s : s[i] \in Range(AsciiDigits)

Parseable(s) ==
    \/ IsNumeric(s)
    \/ /\ Len(s) >= StampLen
       /\ SubSeq(s, 1, StampLen) \in Stamps
       /\ IsTzSuffix(SubSeq(s, StampLen + 1, Len(s)))

parse_datetime(s) ==
    IF IsNumeric(s) THEN Datetime(TimezoneUtc)
    ELSE Datetime(ParseTimezone(SubSeq(s, StampLen + 1, Len(s))))

(***************************************************************************)
(* Inputs: the strings of the doctests and of the specification, and       *)
(* every string at most MaxEdits edits away from one of them.              *)
(***************************************************************************)
Subst(s, i, c) == [s EXCEPT ![i] = c]
Insert(s, i, c) == SubSeq(s, 1, i - 1) \o <<c>> \o SubSeq(s, i, Len(s))
Delete(s, i) == SubSeq(s, 1, i - 1) \o SubSeq(s, i + 1, Len(s))

OneEdit(s, A) ==
    {Subst(s, i, c) : i \in DOMAIN s, c \in A}
        \cup {Insert(s, i, c) : i \in 1..(Len(s) + 1), c \in A}
        \cup {Delete(s, i) : i \in DOMAIN s}

RECURSIVE Edited(_, _, _)
Edited(S, A, k) ==
    IF k = 0 THEN S
    ELSE LET P == Edited(S, A, k - 1) IN P \cup UNION {OneEdit(s, A) : s \in P}

RECURSIVE StringsUpTo(_, _)
StringsUpTo(A, n) ==
    IF n = 0 THEN {<<>>}
    ELSE LET P == StringsUpTo(A, n - 1)
         IN P \cup {Append(s, c) : s \in {q \in P : Len(q) = n - 1}, c \in A}

\* every spelling of s in upper and lower case letters
RECURSIVE CaseVariants(_)
CaseVariants(s) ==
    IF s = <<>> THEN {<<>>}
    ELSE {<<c>> \o v : c \in {LowerCh(Head(s))} \cup Range(UpperCh(Head(s))),
                       v \in CaseVariants(Tail(s))}

NonEmptyStrInputs == StringsUpTo({" ", "\t", "a", "B"}, MaxLen)

SSNInputs ==
    Edited({ <<"1","2","3","4","5","6","7","8","9">>,
             <<"1","2","3","4","-","5","-","6","7","8","9">>,
             <<"1","2","3","4","5","6","7","8">> },
           {"-", "0", "\n", "a", ArabicThree}, MaxEdits)

MBIInputs ==
    Edited({ <<"1","a","x","0","Y","6","7","D","w","3","4">>,
             <<"4","C","5","6","d","e","7","F","G","0","0">>,
             <<"0","A","X","0","Y","6","7","D","W","3","4">> },
           {"0", "S", "q", "\n", ArabicThree, LigatureFF}, MaxEdits)

Helicopter == <<"h","e","l","i","c","o","p","t","e","r">>

EnumInputs(c) ==
    UNION {CaseVariants(Members(c)[m]) : m \in DOMAIN Members(c)}
        \cup Edited(Range(Members(c)) \cup {Helicopter}, {" ", "x", "E"}, MaxEdits)

TzSuffixes ==
    Edited({ <<>>, <<"Z">>, <<"+","0","0",":","0","0">>, <<"+","0","3",":","0","0">> },
           {"0", "5", "-", ":"}, MaxEdits)

DatetimeStrings ==
    {st \o z : st \in Stamps, z \in TzSuffixes} \cup {<<"0">>, <<"n","o","w">>}

\* datetime objects: naive, timezone.utc (as now_utc() returns), a named
\* zero offset, fixed offsets, and the zones of pytz and zoneinfo
DatetimeObjects ==
    {Datetime(tz) : tz \in {TzNone, TimezoneUtc, Tz("timezone", 0, "GMT"),
                            Timezone(180), Timezone(-300),
                            Tz("pytz", 0, "UTC"), Tz("zoneinfo", 0, "UTC"),
                            Tz("pytz", 122, "Europe/Kyiv")}}

(***************************************************************************)
(* The state machine.                                                      *)
(***************************************************************************)
Init ==
    /\ \/ /\ ty = "NonEmptyStr" /\ cls = "" /\ raw \in NonEmptyStrInputs
          /\ obj = NoDatetime
       \/ /\ ty = "SSN" /\ cls = "" /\ raw \in SSNInputs /\ obj = NoDatetime
       \/ /\ ty = "MBI" /\ cls = "" /\ raw \in MBIInputs /\ obj = NoDatetime
       \/ /\ ty = "CaseInsensitiveEnum" /\ cls \in EnumClasses
          /\ raw \in EnumInputs(cls) /\ obj = NoDatetime
       \/ /\ ty = "UTCDatetime" /\ cls = "" /\ raw \in DatetimeStrings
          /\ obj = NoDatetime
       \/ /\ ty = "UTCDatetime" /\ cls = "" /\ raw = <<>>
          /\ obj \in DatetimeObjects
    /\ value = IF ty \in StrTypes THEN raw ELSE NoValue
    /\ dt = NoDatetime
    /\ member = NoMember
    /\ pc = 1
    /\ err = NoErr
    /\ matched = NoValue
    /\ round = 1
    /\ first = NoValue

Running(name) ==
    /\ err = NoErr
    /\ pc \in DOMAIN Validators(ty)
    /\ Validators(ty)[pc] = name

Done == err = NoErr /\ pc > Len(Validators(ty))

Failed == err # NoErr

Pass(v) ==
    /\ value' = v
    /\ pc' = pc + 1
    /\ UNCHANGED <<ty, cls, raw, obj, dt, member, err, matched, round, first>>

Raise(e) ==
    /\ err' = e
    /\ UNCHANGED <<ty, cls, raw, obj, value, dt, member, pc, matched, round, first>>

\* pydantic.validators.str_validator: a str is returned as it is
str_validator ==
    /\ Running("str_validator")
    /\ Pass(value)

constr_strip_whitespace ==
    /\ Running("constr_strip_whitespace")
    /\ Pass(IF strip_whitespace(ty) THEN Strip(value) ELSE value)

constr_upper ==
    /\ Running("constr_upper")
    /\ Pass(IF to_upper(ty) THEN Upper(value) ELSE value)

\* to_lower is False in the three classes
constr_lower ==
    /\ Running("constr_lower")
    /\ Pass(value)

constr_length_validator ==
    /\ Running("constr_length_validator")
    /\ IF Len(value) < min_length(ty) THEN Raise(AnyStrMinLengthError) ELSE Pass(value)

\* ConstrainedStr.validate: re.match(cls.regex, value) when the class has a regex
ConstrainedStr_validate ==
    /\ Running("ConstrainedStr.validate")
    /\ IF HasRegex(ty)
       THEN IF RegexMatch(ty, value)
            THEN /\ matched' = value
                 /\ pc' = pc + 1
                 /\ UNCHANGED <<ty, cls, raw, obj, value, dt, member, err, round, first>>
            ELSE /\ matched' = value
                 /\ err' = StrRegexError
                 /\ UNCHANGED <<ty, cls, raw, obj, value, dt, member, pc, round, first>>
       ELSE Pass(value)

SSN_cleanup_ssn ==
    /\ Running("cleanup_ssn")
    /\ Pass(cleanup_ssn(value))

\* a second construction, from the string the first one returned
Remake ==
    /\ ty \in StrTypes
    /\ Done
    /\ round = 1
    /\ round' = 2
    /\ first' = value
    /\ raw' = value
    /\ matched' = NoValue
    /\ pc' = 1
    /\ UNCHANGED <<ty, cls, obj, value, dt, member, err>>

\* Enum.__new__: an exact value is returned without calling _missing_
Enum_new ==
    /\ Running("Enum.__new__")
    /\ member' = ValueToMember(cls, raw)
    /\ pc' = IF ValueToMember(cls, raw) # NoMember THEN Len(Validators(ty)) + 1 ELSE pc + 1
    /\ UNCHANGED <<ty, cls, raw, obj, value, dt, err, matched, round, first>>

\* CaseInsensitiveEnum._missing_, and the ValueError of Enum.__new__ when
\* it returns None
CaseInsensitiveEnum_missing ==
    /\ Running("_missing_")
    /\ IF Missing(cls, raw) # NoMember
       THEN /\ member' = Missing(cls, raw)
            /\ pc' = pc + 1
            /\ UNCHANGED err
       ELSE /\ err' = NotAValidError(raw, cls)
            /\ UNCHANGED <<member, pc>>
    /\ UNCHANGED <<ty, cls, raw, obj, value, dt, matched, round, first>>

\* pydantic.validators.parse_datetime: a datetime is returned as it is
UTCDatetime_parse_datetime ==
    /\ Running("parse_datetime")
    /\ IF obj.set
       THEN dt' = obj /\ pc' = pc + 1 /\ UNCHANGED err
       ELSE IF Parseable(raw)
            THEN dt' = parse_datetime(raw) /\ pc' = pc + 1 /\ UNCHANGED err
            ELSE err' = DateTimeError /\ UNCHANGED <<dt, pc>>
    /\ UNCHANGED <<ty, cls, raw, obj, value, member, matched, round, first>>

\* UTCDatetime.validate with its two checks in the other order
UTCDatetime_validate_swapped ==
    /\ Running("UTCDatetime.validate")
    /\ IF ~TzEq(dt.tz, TimezoneUtc) THEN err' = NonUTCError /\ UNCHANGED pc
       ELSE IF ~Truthy(dt.tz) THEN err' = NaiveError /\ UNCHANGED pc
       ELSE pc' = pc + 1 /\ UNCHANGED err
    /\ UNCHANGED <<ty, cls, raw, obj, value, dt, member, matched, round, first>>

\* UTCDatetime.validate
UTCDatetime_validate ==
    /\ Running("UTCDatetime.validate")
    /\ IF ~Truthy(dt.tz) THEN err' = NaiveError /\ UNCHANGED pc
       ELSE IF ~TzEq(dt.tz, TimezoneUtc) THEN err' = NonUTCError /\ UNCHANGED pc
       ELSE pc' = pc + 1 /\ UNCHANGED err
    /\ UNCHANGED <<ty, cls, raw, obj, value, dt, member, matched, round, first>>

Next ==
    \/ str_validator
    \/ constr_strip_whitespace
    \/ constr_upper
    \/ constr_lower
    \/ constr_length_validator
    \/ ConstrainedStr_validate
    \/ SSN_cleanup_ssn
    \/ Remake
    \/ Enum_new
    \/ CaseInsensitiveEnum_missing
    \/ UTCDatetime_parse_datetime
    \/ UTCDatetime_validate

Spec == Init /\ [][Next]_vars

(***************************************************************************)
(* Properties.                                                             *)
(***************************************************************************)
Finished == Done \/ Failed

EnumFinished == ty = "CaseInsensitiveEnum" /\ Finished

\* no two members of the class have canonical strings equal up to case
CaseUnique(c) ==
    \A m, k \in DOMAIN Members(c) :
        Lower(Members(c)[m]) = Lower(Members(c)[k]) => m = k

NoCaseMatch(c, s) == \A m \in DOMAIN Members(c) : Lower(s) # Lower(StringEnum_str(c, m))

\* C1: in a CaseInsensitiveEnum subclass whose canonical strings are unique
\* (no two equal up to case), E(s) returns member m exactly when s.lower()
\* equals str(m).lower(); for every other string, a canonical string padded
\* with white space included, E(s) raises the ValueError that names the
\* input and the class, and returns no member.
C1_CaseInsensitiveResolve ==
    (EnumFinished /\ CaseUnique(cls)) =>
        /\ \A m \in DOMAIN Members(cls) :
              (Done /\ member = m) <=> Lower(raw) = Lower(StringEnum_str(cls, m))
        /\ NoCaseMatch(cls, raw) =>
              /\ err = NotAValidError(raw, cls)
              /\ member = NoMember

\* a spelling in another case was resolved to its member
C1_Witness ==
    /\ EnumFinished /\ cls = "Gender" /\ Done
    /\ member # NoMember
    /\ raw # Members(cls)[member]

\* C10: in a class with canonical strings that differ only in letter case,
\* a string equal to a canonical string resolves to that very member, and
\* any other spelling resolves to the first member, in definition order,
\* whose lower-cased canonical string matches; such inputs never fail and
\* never resolve to a member that does not match.
C10_CaseCollision ==
    (EnumFinished /\ ~CaseUnique(cls) /\ ~NoCaseMatch(cls, raw)) =>
        /\ Done
        /\ member \in DOMAIN Members(cls)
        /\ IF raw \in Range(Members(cls))
           THEN Members(cls)[member] = raw
           ELSE /\ Lower(Members(cls)[member]) = Lower(raw)
                /\ \A k \in 1..(member - 1) : Lower(Members(cls)[k]) # Lower(raw)

\* the exact canonical string of a member that is not the first match
C10_Witness ==
    /\ EnumFinished /\ cls = "Unit" /\ Done
    /\ member = 2
    /\ Lower(Members(cls)[1]) = Lower(raw)

StrFinished(t) == ty = t /\ round = 1 /\ Finished

AllSpace(s) == \A i \in DOMAIN s : s[i] \in {" ", "\t", "\n"}

\* C9: NonEmptyStr strips surrounding white space and then checks the
\* minimum length 1 on the stripped string: an accepted value is not empty
\* and neither starts nor ends with white space, and an input that is
\* empty or all white space is rejected with the minimum-length error.
C9_NonEmptyStripped ==
    StrFinished("NonEmptyStr") =>
        /\ Done =>
              /\ value # <<>>
              /\ ~AllSpace(<<value[1]>>)
              /\ ~AllSpace(<<value[Len(value)]>>)
              /\ \E i, j \in DOMAIN raw :
                    /\ value = SubSeq(raw, i, j)
                    /\ AllSpace(SubSeq(raw, 1, i - 1))
                    /\ AllSpace(SubSeq(raw, j + 1, Len(raw)))
        /\ AllSpace(raw) => err = AnyStrMinLengthError
        /\ ~AllSpace(raw) => Done

\* an input with surrounding white space was accepted
C9_Witness ==
    /\ StrFinished("NonEmptyStr") /\ Done
    /\ value # raw

\* C5: for NonEmptyStr, SSN and MBI, constructing again from the rendered
\* result of an accepted construction is accepted too and gives the same
\* value.
C5_Idempotent ==
    (ty \in StrTypes /\ round = 2 /\ Finished) => (Done /\ value = first)

\* a second construction of an SSN finished
C5_Witness ==
    /\ ty = "SSN" /\ round = 2 /\ Finished
    /\ first # NoValue

DigitCount(s) == Cardinality({i \in DOMAIN s : IsDigit(s[i])})

NoDash(s) == \A i \in DOMAIN s : s[i] # "-"

\* nine digits, at most one dash between two adjacent digits, nothing else
WellFormedSsn(s) ==
    /\ \A i \in DOMAIN s : IsDigit(s[i]) \/ s[i] = "-"
    /\ DigitCount(s) = 9
    /\ s # <<>> => (s[1] # "-" /\ s[Len(s)] # "-")
    /\ \A i \in 1..(Len(s) - 1) : ~(s[i] = "-" /\ s[i + 1] = "-")

\* C2: SSN accepts a string exactly when it is nine digits with at most
\* one dash between adjacent digits and no other character anywhere (no
\* trailing line feed either); the value returned is the input without its
\* dashes, nine digits and nothing else.
C2_SsnAcceptance ==
    StrFinished("SSN") =>
        /\ Done <=> WellFormedSsn(raw)
        /\ Done => /\ Len(value) = 9
                   /\ \A i \in DOMAIN value : IsDigit(value[i])

MbiLetter(c) == c \in Range(UpperAlpha) \ {"S", "L", "O", "I", "B", "Z"}

UpperCase(s) == \A i \in DOMAIN s : s[i] \notin Range(LowerAlpha)

\* C3, as claimed: an accepted MBI is 11 upper-case characters, a digit
\* (1-9 first) in positions 1, 4, 7, 10, 11 and a letter other than
\* S, L, O, I, B, Z in positions 2, 3, 5, 6, 8, 9.
C3_MbiShapeClaimed ==
    (StrFinished("MBI") /\ Done) =>
        /\ Len(value) = 11
        /\ UpperCase(value)
        /\ value[1] # "0"
        /\ \A i \in {1, 4, 7, 10, 11} : IsDigit(value[i])
        /\ \A i \in {2, 3, 5, 6, 8, 9} : MbiLetter(value[i])

\* C3, amended: an accepted MBI is the upper-cased input; its first 11
\* characters are a digit 1-9, then in positions 4, 7, 10, 11 a decimal
\* digit, in positions 2, 5, 8, 9 a letter other than S, L, O, I, B, Z, and
\* in positions 3 and 6 either of the two; nothing follows them but, at
\* most, one final line feed.  An input that deviates is rejected.
C3_MbiShape ==
    (StrFinished("MBI") /\ Done) =>
        /\ value = Upper(raw)
        /\ Len(value) \in {11, 12}
        /\ Len(value) = 12 => value[12] = "\n"
        /\ UpperCase(value)
        /\ value[1] \in {"1", "2", "3", "4", "5", "6", "7", "8", "9"}
        /\ \A i \in {4, 7, 10, 11} : IsDigit(value[i])
        /\ \A i \in {2, 5, 8, 9} : MbiLetter(value[i])
        /\ \A i \in {3, 6} : IsDigit(value[i]) \/ MbiLetter(value[i])

\* an MBI with a digit in position 3 was accepted
C3_Witness ==
    /\ StrFinished("MBI") /\ Done
    /\ IsDigit(value[3])

\* C6, as claimed: an SSN input with the wrong number of digits fails with
\* a length violation.
C6_LengthViolationClaimed ==
    (StrFinished("SSN") /\ DigitCount(raw) # 9) =>
        err.exc \in {"AnyStrMinLengthError", "AnyStrMaxLengthError"}

\* C6, amended: an SSN input with the wrong number of digits fails with
\* the pattern (regex) violation; SSN has no length constraint.
C6_PatternViolation ==
    (StrFinished("SSN") /\ DigitCount(raw) # 9) => err = StrRegexError

\* the eight-digit string was rejected
C6_Witness ==
    /\ StrFinished("SSN") /\ Failed
    /\ raw = <<"1", "2", "3", "4", "5", "6", "7", "8">>

\* C7, as claimed: the SSN regex is always evaluated against the string
\* without dashes, never against the raw input.
C7_RegexAfterCleanupClaimed ==
    (ty = "SSN" /\ round = 1 /\ matched # NoValue) => NoDash(matched)

\* C7, amended: the SSN regex is evaluated first, against the raw input
\* with its dashes; the dashes are removed after it, and only from an
\* input the regex accepted.
C7_RegexBeforeCleanup ==
    (ty = "SSN" /\ round = 1) =>
        /\ matched # NoValue => matched = raw
        /\ value # raw => /\ matched = raw
                          /\ Done
                          /\ NoDash(value)

\* an input with dashes was accepted and cleaned
C7_Witness ==
    /\ StrFinished("SSN") /\ Done
    /\ ~NoDash(raw)
    /\ NoDash(value)

DatetimeFinished == ty = "UTCDatetime" /\ Finished /\ dt.set

Aware(d) == d.tz.cls # "None"

\* the zones that are UTC to Python: a datetime.timezone of offset zero
IsUtcZone(tz) == tz.cls = "timezone" /\ tz.off = 0

C8_ZeroOffsetRejectedClaimed ==
    (DatetimeFinished /\ Aware(dt) /\ dt.tz # TimezoneUtc) => err = NonUTCError

\* C8, amended: an aware timestamp is rejected with the non-UTC error
\* exactly when its tzinfo does not compare equal to timezone.utc: at any
\* offset other than zero, and at offset zero when the zone object is not
\* a datetime.timezone (pytz, zoneinfo).  A datetime.timezone of offset
\* zero is accepted under any name.
C8_ZeroOffset ==
    (DatetimeFinished /\ Aware(dt)) =>
        /\ dt.tz.off # 0 => err = NonUTCError
        /\ (dt.tz.off = 0 /\ dt.tz.cls # "timezone") => err = NonUTCError
        /\ (dt.tz.off = 0 /\ dt.tz.cls = "timezone") => Done

\* the UTC zone of pytz was rejected
C8_Witness ==
    /\ DatetimeFinished
    /\ dt.tz = Tz("pytz", 0, "UTC")
    /\ err = NonUTCError

====
